---- MODULE Spec2Model ----
(***************************************************************************)
(* classification_models_3D/models/inception_v3.py as a state machine.     *)
(*                                                                         *)
(* One caller invokes InceptionV3(...) and preprocess_input(...) one after *)
(* the other.  An InceptionV3 call is followed statement by statement: the *)
(* assignment of the module globals, the two argument checks, the stride   *)
(* schedule normalisation, the layer-by-layer graph construction, the      *)
(* model creation, the weight loading and the return.                      *)
(*                                                                         *)
(* Python values: None is the string "None"; a stride entry is a record    *)
(* [t, v] with t in {"int", "tuple", "list"} and v the sequence of its     *)
(* integers (one integer for an int).                                      *)
(***************************************************************************)
EXTENDS Integers, Sequences, FiniteSets, TLC

VARIABLES
    backend, layers, models, keras_utils,  \* the module globals (lines 22-25)
    pc,            \* position of the caller / of the running InceptionV3 call
    args,          \* arguments of the running call
    stride_size,   \* the local stride_size once line 143-152 rebinds it
    graph,         \* layers created by the running call, in creation order
    model,         \* models.Model(...) object of the running call
    ret,           \* outcome handed to the caller
    stdout,        \* lines printed by the running call
    loads,         \* arguments of model.load_weights calls of the running call
    writes,        \* assignments to the module globals by the running call
    pre,           \* result of the running preprocess_input call
    last_kwargs    \* history: kwargs of the most recent InceptionV3 call

vars == <<backend, layers, models, keras_utils, pc, args, stride_size, graph,
          model, ret, stdout, loads, writes, pre, last_kwargs>>

globals == <<backend, layers, models, keras_utils>>

(***************************************************************************)
(* Bounds of the model.                                                    *)
(***************************************************************************)
MaxStride == 2      \* stride values are 1..MaxStride
MaxSchedLen == 6    \* stride schedules of 0..MaxSchedLen entries
MaxExtent == 14     \* largest input extent per axis
SmallClasses == 10  \* a class count other than the ImageNet one
MaxPixel == 255     \* pixel values handed to preprocess_input are 0..MaxPixel

ImagenetClasses == 1000
ScheduleLen == 5
InputChannels == 3

(***************************************************************************)
(* Python values.                                                          *)
(***************************************************************************)
None == "None"

PyInt(n) == [t |-> "int", v |-> <<n>>]
PyTuple(s) == [t |-> "tuple", v |-> s]
PyList(s) == [t |-> "list", v |-> s]

\* type(x) in (tuple, list)
IsSequence(x) == x.t \in {"tuple", "list"}

(***************************************************************************)
(* The environment: the frameworks a caller can select, the files that     *)
(* exist.                                                                  *)
(***************************************************************************)
Frameworks == {"keras", "tfkeras"}

ExistingPaths == {"weights.h5"}

\* os.path.exists(p)
path_exists(p) == p \in ExistingPaths

\* backend.image_data_format() of the selected backend
image_data_format(b) == IF b = "keras" THEN "channels_last" ELSE "channels_first"

\* get_submodules_from_kwargs(kwargs): the four module references selected
get_submodules_from_kwargs(kw) ==
    [backend |-> kw, layers |-> kw, models |-> kw, keras_utils |-> kw]

(***************************************************************************)
(* Argument checks, lines 131-139.                                         *)
(***************************************************************************)
WeightsOk(weights) == weights \in {"imagenet", None} \/ path_exists(weights)

\* variant: the check forgets include_top
ClassesMismatchAnyTop(weights, include_top, classes) ==
    weights = "imagenet" /\ classes # ImagenetClasses

ClassesMismatch(weights, include_top, classes) ==
    weights = "imagenet" /\ include_top /\ classes # ImagenetClasses

(***************************************************************************)
(* Stride schedule normalisation, lines 141-160.                           *)
(* A stride_size argument is [t |-> "int", n |-> s, items |-> <<>>] or     *)
(* [t |-> "tuple" / "list", n |-> 0, items |-> <<entry, ...>>].            *)
(***************************************************************************)
ScalarStride(s) == [t |-> "int", n |-> s, items |-> <<>>]
SeqStride(t, items) == [t |-> t, n |-> 0, items |-> items]

\* variant: one of the five copies of the scalar's tuple is missing
ToScheduleFourCopies(arg) ==
    IF ~IsSequence(arg)
    THEN [i \in 1..4 |-> PyTuple(<<arg.n, arg.n, arg.n>>)]
    ELSE arg.items

\* lines 143-152: the list the local stride_size is rebound to
ToSchedule(arg) ==
    IF ~IsSequence(arg)
    THEN [i \in 1..5 |-> PyTuple(<<arg.n, arg.n, arg.n>>)]
    ELSE arg.items

\* variant: only a schedule that is too long is rejected
BadLengthOnlyLonger(sched) == Len(sched) > ScheduleLen

\* line 154
BadLength(sched) == Len(sched) # ScheduleLen

\* lines 158-160: each entry that is no tuple or list becomes a 3-tuple
BroadcastEntry(e) ==
    IF ~IsSequence(e) THEN PyTuple(<<e.v[1], e.v[1], e.v[1]>>) ELSE e

BroadcastEntries(sched) == [i \in DOMAIN sched |-> BroadcastEntry(sched[i])]

(***************************************************************************)
(* The layer library (keras layers), as far as the graph's wiring and      *)
(* shapes go.  A graph under construction is [layers, err, env]: the       *)
(* layers created so far, in creation order; the exception a layer call    *)
(* raised ("" for none); and the local variables of InceptionV3 that hold  *)
(* tensors.  A tensor is the index of the layer producing it (0: the       *)
(* variable is unbound).  A layer records its kind, name, input tensors,   *)
(* kernel or pool window, strides, padding, axis, and the spatial extents  *)
(* sp and channel count ch of its output.  Once err is set, the exception  *)
(* propagates: later statements create nothing.                            *)
(***************************************************************************)
Locals ==
    {"img_input", "x", "branch1x1", "branch5x5", "branch3x3dbl", "branch_pool",
     "branch3x3", "branch7x7", "branch7x7dbl", "branch7x7x3", "branch3x3_1",
     "branch3x3_2", "branch3x3dbl_1", "branch3x3dbl_2"}

EmptyGraph == [layers |-> <<>>, err |-> "", env |-> [v \in Locals |-> 0]]

Layer(kind, name, ins, kernel, strides, padding, axis, sp, ch) ==
    [kind |-> kind, name |-> name, ins |-> ins, kernel |-> kernel,
     strides |-> strides, padding |-> padding, axis |-> axis,
     sp |-> sp, ch |-> ch]

Last(g) == Len(g.layers)

AddLayer(g, l) == [g EXCEPT !.layers = Append(@, l)]

Raise(g, exc) == [g EXCEPT !.err = exc]

\* dst = <the tensor the last layer call returned>
Assign(g, dst) == IF g.err # "" THEN g ELSE [g EXCEPT !.env[dst] = Last(g)]

\* the exceptions of the layer library
StridesError == "ValueError: strides must be 3 integers"
DimensionError == "ValueError: negative dimension size"
ConcatError == "ValueError: Concatenate requires inputs with matching shapes"

\* output length of a convolution or pooling along one axis
OutLen(n, k, s, padding) ==
    IF padding = "same" THEN (n + s - 1) \div s ELSE ((n - k) \div s) + 1

OutExtents(sp, kernel, strides, padding) ==
    [i \in 1..3 |-> OutLen(sp[i], kernel[i], strides[i], padding)]

Positive(sp) == \A i \in DOMAIN sp : sp[i] > 0

\* layers.Input(shape=input_shape) and layers.Input(tensor=..., shape=...)
Input(g, shape) ==
    AddLayer(g, Layer("InputLayer", None, <<>>, <<>>, <<>>, None, 0,
                      shape, InputChannels))

\* a Keras tensor handed in by the caller: no layer of this call produces it
ExternalTensor(g, shape) ==
    AddLayer(g, Layer("ExternalTensor", None, <<>>, <<>>, <<>>, None, 0,
                      shape, InputChannels))

\* layers.Conv3D(filters, kernel, strides=, padding=, use_bias=False, name=)(x)
Conv3D(g, x, filters, kernel, strides, padding, name) ==
    IF g.err # "" THEN g
    ELSE IF Len(strides) # 3 THEN Raise(g, StridesError)
    ELSE LET sp == OutExtents(g.layers[x].sp, kernel, strides, padding)
         IN  IF ~Positive(sp) THEN Raise(g, DimensionError)
             ELSE AddLayer(g, Layer("Conv3D", name, <<x>>, kernel, strides,
                                    padding, 0, sp, filters))

\* layers.BatchNormalization(axis=bn_axis, scale=False, name=bn_name)(x)
BatchNormalization(g, x, axis, name) ==
    IF g.err # "" THEN g
    ELSE AddLayer(g, Layer("BatchNormalization", name, <<x>>, <<>>, <<>>, None,
                           axis, g.layers[x].sp, g.layers[x].ch))

\* layers.Activation('relu', name=name)(x)
Activation(g, x, name) ==
    IF g.err # "" THEN g
    ELSE AddLayer(g, Layer("Activation", name, <<x>>, <<>>, <<>>, None, 0,
                           g.layers[x].sp, g.layers[x].ch))

\* layers.MaxPooling3D / layers.AveragePooling3D (pool, strides=, padding=)(x)
Pooling3D(kind, g, x, pool, strides, padding) ==
    IF g.err # "" THEN g
    ELSE IF Len(strides) # 3 \/ Len(pool) # 3 THEN Raise(g, StridesError)
    ELSE LET sp == OutExtents(g.layers[x].sp, pool, strides, padding)
         IN  IF ~Positive(sp) THEN Raise(g, DimensionError)
             ELSE AddLayer(g, Layer(kind, None, <<x>>, pool, strides, padding,
                                    0, sp, g.layers[x].ch))

\* dst = layers.MaxPooling3D(pool, strides=strides, padding=padding)(src)
MaxPooling3D(g, dst, src, pool, strides, padding) ==
    Assign(Pooling3D("MaxPooling3D", g, g.env[src], pool, strides, padding), dst)

\* dst = layers.AveragePooling3D(pool, strides=strides, padding=padding)(src)
AveragePooling3D(g, dst, src, pool, strides, padding) ==
    Assign(Pooling3D("AveragePooling3D", g, g.env[src], pool, strides, padding),
           dst)

RECURSIVE SumCh(_, _)
SumCh(g, ins) ==
    IF ins = <<>> THEN 0 ELSE g.layers[Head(ins)].ch + SumCh(g, Tail(ins))

\* layers.concatenate(inputs, axis=, name=): the inputs must agree on
\* every axis but the concatenation axis
Concatenate(g, ins, axis, name) ==
    IF g.err # "" THEN g
    ELSE IF \E i \in DOMAIN ins : g.layers[ins[i]].sp # g.layers[ins[1]].sp
         THEN Raise(g, ConcatError)
    ELSE AddLayer(g, Layer("Concatenate", name, ins, <<>>, <<>>, None, axis,
                           g.layers[ins[1]].sp, SumCh(g, ins)))

\* dst = layers.concatenate([srcs...], axis=axis, name=name)
concatenate(g, dst, srcs, axis, name) ==
    Assign(Concatenate(g, [i \in DOMAIN srcs |-> g.env[srcs[i]]], axis, name), dst)

\* layers.GlobalAveragePooling3D / layers.GlobalMaxPooling3D (name=)(x)
GlobalPooling3D(kind, g, x, name) ==
    IF g.err # "" THEN g
    ELSE AddLayer(g, Layer(kind, name, <<x>>, <<>>, <<>>, None, 0, <<>>,
                           g.layers[x].ch))

\* x = layers.GlobalAveragePooling3D(name=name)(x)
GlobalAveragePooling3D(g, name) ==
    Assign(GlobalPooling3D("GlobalAveragePooling3D", g, g.env["x"], name), "x")

\* x = layers.GlobalMaxPooling3D()(x)
GlobalMaxPooling3D(g, name) ==
    Assign(GlobalPooling3D("GlobalMaxPooling3D", g, g.env["x"], name), "x")

\* x = layers.Dense(units, activation='softmax', name=name)(x)
Dense(g, units, name) ==
    IF g.err # "" THEN g
    ELSE Assign(AddLayer(g, Layer("Dense", name, <<g.env["x"]>>, <<>>, <<>>,
                                  None, 0, <<>>, units)), "x")

(***************************************************************************)
(* conv3d_bn, lines 28-72, called as dst = conv3d_bn(src, ...).  The       *)
(* default of padding is 'same', of strides (1, 1, 1), of name None; Conv  *)
(* below is the call with the defaults.                                    *)
(***************************************************************************)
Unit == <<1, 1, 1>>

BnAxis == IF image_data_format(backend) = "channels_first" THEN 1 ELSE 4

\* lines 70 and 71, applied to the x of the line before
BatchNormalizationOfX(g, axis, name) == BatchNormalization(g, Last(g), axis, name)

ActivationOfX(g, name) == Activation(g, Last(g), name)

conv3d_bn(g, dst, src, filters, num_row, num_col, num_z, padding, strides, name) ==
    LET bn_name == IF name # None THEN name \o "_bn" ELSE None
        conv_name == IF name # None THEN name \o "_conv" ELSE None
        c == Conv3D(g, g.env[src], filters, <<num_row, num_col, num_z>>,
                    strides, padding, conv_name)
        b == BatchNormalizationOfX(c, BnAxis, bn_name)
    IN  Assign(ActivationOfX(b, name), dst)

\* variant: the default of Conv3D itself
DefaultPaddingValid == "valid"

DefaultPadding == "same"

Conv(g, dst, src, filters, num_row, num_col, num_z) ==
    conv3d_bn(g, dst, src, filters, num_row, num_col, num_z, DefaultPadding,
              Unit, None)

\* The value of the last of the statements, each evaluated in program order.
InOrder(statements) == statements[Len(statements)]

ChannelAxis == IF image_data_format(backend) = "channels_first" THEN 1 ELSE 4

\* stride_size[i] of the source (0-based), as the sequence of its integers
Entry(ss, i) == ss[i + 1].v

\* variant: strides= is not passed, and MaxPooling3D strides by its pool
StridedMaxPoolDefaultStrides(g, dst, src, s, padding) ==
    IF g.err # "" THEN g
    ELSE IF Len(s) < 3 THEN Raise(g, "IndexError")
    ELSE MaxPooling3D(g, dst, src, <<s[1] + 1, s[2] + 1, s[3] + 1>>,
                      <<s[1] + 1, s[2] + 1, s[3] + 1>>, padding)

\* pool = (s[0] + 1, s[1] + 1, s[2] + 1)
\* dst = layers.MaxPooling3D(pool, strides=s, padding=padding)(src)
StridedMaxPool(g, dst, src, s, padding) ==
    IF g.err # "" THEN g
    ELSE IF Len(s) < 3 THEN Raise(g, "IndexError")
    ELSE MaxPooling3D(g, dst, src, <<s[1] + 1, s[2] + 1, s[3] + 1>>, s, padding)

(***************************************************************************)
(* The stem, lines 175-184.                                                *)
(***************************************************************************)
Stem(g, ss) ==
    LET a1 == conv3d_bn(g, "x", "img_input", 32, 3, 3, 3, "same", Entry(ss, 0),
                        None)
        a2 == conv3d_bn(a1, "x", "x", 32, 3, 3, 3, "same", Unit, None)
        a3 == Conv(a2, "x", "x", 64, 3, 3, 3)
        a4 == StridedMaxPool(a3, "x", "x", Entry(ss, 1), "valid")
        a5 == conv3d_bn(a4, "x", "x", 80, 1, 1, 1, "same", Unit, None)
        a6 == conv3d_bn(a5, "x", "x", 192, 3, 3, 3, "same", Unit, None)
    IN  InOrder(<<a1, a2, a3, a4, a5, a6,
                  StridedMaxPool(a6, "x", "x", Entry(ss, 2), "valid")>>)

(***************************************************************************)
(* One of mixed 0, 1, 2 (lines 186-241): the three blocks differ in the    *)
(* filters of the pooling branch (32, 64, 64) and in the name.             *)
(***************************************************************************)
Mixed35(g, pool_filters, name) ==
    LET b1 == Conv(g, "branch1x1", "x", 64, 1, 1, 1)
        b2 == Conv(b1, "branch5x5", "x", 48, 1, 1, 1)
        b3 == Conv(b2, "branch5x5", "branch5x5", 64, 5, 5, 5)
        b4 == Conv(b3, "branch3x3dbl", "x", 64, 1, 1, 1)
        b5 == Conv(b4, "branch3x3dbl", "branch3x3dbl", 96, 3, 3, 3)
        b6 == Conv(b5, "branch3x3dbl", "branch3x3dbl", 96, 3, 3, 3)
        b7 == AveragePooling3D(b6, "branch_pool", "x", <<3, 3, 3>>, Unit, "same")
        b8 == Conv(b7, "branch_pool", "branch_pool", pool_filters, 1, 1, 1)
    IN  InOrder(<<b1, b2, b3, b4, b5, b6, b7, b8,
                  concatenate(b8, "x",
                      <<"branch1x1", "branch5x5", "branch3x3dbl", "branch_pool">>,
                      ChannelAxis, name)>>)

(***************************************************************************)
(* mixed 3, lines 243-255.                                                 *)
(***************************************************************************)
Mixed3(g, ss) ==
    LET b1 == conv3d_bn(g, "branch3x3", "x", 384, 3, 3, 3, "same", Entry(ss, 3),
                        None)
        b2 == Conv(b1, "branch3x3dbl", "x", 64, 1, 1, 1)
        b3 == Conv(b2, "branch3x3dbl", "branch3x3dbl", 96, 3, 3, 3)
        b4 == conv3d_bn(b3, "branch3x3dbl", "branch3x3dbl", 96, 3, 3, 3, "same",
                        Entry(ss, 3), None)
        b5 == StridedMaxPool(b4, "branch_pool", "x", Entry(ss, 3), "same")
    IN  InOrder(<<b1, b2, b3, b4, b5,
                  concatenate(b5, "x",
                      <<"branch3x3", "branch3x3dbl", "branch_pool">>,
                      ChannelAxis, "mixed3")>>)

(***************************************************************************)
(* One of mixed 4 to 7 (lines 257-321): the four blocks differ in the      *)
(* filters of the inner 7x7 convolutions (128, 160, 160, 192) and in the   *)
(* name.                                                                   *)
(***************************************************************************)
Mixed17(g, c7, name) ==
    LET b1 == Conv(g, "branch1x1", "x", 192, 1, 1, 1)
        b2 == Conv(b1, "branch7x7", "x", c7, 1, 1, 1)
        b3 == Conv(b2, "branch7x7", "branch7x7", c7, 1, 7, 1)
        b4 == Conv(b3, "branch7x7", "branch7x7", 192, 7, 1, 1)
        b5 == Conv(b4, "branch7x7dbl", "x", c7, 1, 1, 1)
        b6 == Conv(b5, "branch7x7dbl", "branch7x7dbl", c7, 7, 1, 1)
        b7 == Conv(b6, "branch7x7dbl", "branch7x7dbl", c7, 1, 7, 1)
        b8 == Conv(b7, "branch7x7dbl", "branch7x7dbl", c7, 7, 1, 1)
        b9 == Conv(b8, "branch7x7dbl", "branch7x7dbl", 192, 1, 7, 1)
        b10 == AveragePooling3D(b9, "branch_pool", "x", <<3, 3, 3>>, Unit, "same")
        b11 == Conv(b10, "branch_pool", "branch_pool", 192, 1, 1, 1)
    IN  InOrder(<<b1, b2, b3, b4, b5, b6, b7, b8, b9, b10, b11,
                  concatenate(b11, "x",
                      <<"branch1x1", "branch7x7", "branch7x7dbl", "branch_pool">>,
                      ChannelAxis, name)>>)

(***************************************************************************)
(* mixed 8, lines 323-339.                                                 *)
(***************************************************************************)
Mixed8(g, ss) ==
    LET b1 == Conv(g, "branch3x3", "x", 192, 1, 1, 1)
        b2 == conv3d_bn(b1, "branch3x3", "branch3x3", 320, 3, 3, 3, "same",
                        Entry(ss, 4), None)
        b3 == Conv(b2, "branch7x7x3", "x", 192, 1, 1, 1)
        b4 == Conv(b3, "branch7x7x3", "branch7x7x3", 192, 1, 7, 1)
        b5 == Conv(b4, "branch7x7x3", "branch7x7x3", 192, 7, 1, 1)
        b6 == conv3d_bn(b5, "branch7x7x3", "branch7x7x3", 192, 3, 3, 3, "same",
                        Entry(ss, 4), None)
        b7 == StridedMaxPool(b6, "branch_pool", "x", Entry(ss, 4), "same")
    IN  InOrder(<<b1, b2, b3, b4, b5, b6, b7,
                  concatenate(b7, "x",
                      <<"branch3x3", "branch7x7x3", "branch_pool">>,
                      ChannelAxis, "mixed8")>>)

(***************************************************************************)
(* One of mixed 9 and 10, the loop of lines 341-366; i is the loop index.  *)
(***************************************************************************)
Mixed8x8(g, i) ==
    LET b1 == Conv(g, "branch1x1", "x", 320, 1, 1, 1)
        b2 == Conv(b1, "branch3x3", "x", 384, 1, 1, 1)
        b3 == Conv(b2, "branch3x3_1", "branch3x3", 384, 1, 3, 1)
        b4 == Conv(b3, "branch3x3_2", "branch3x3", 384, 3, 1, 1)
        b5 == concatenate(b4, "branch3x3", <<"branch3x3_1", "branch3x3_2">>,
                          ChannelAxis, IF i = 0 THEN "mixed9_0" ELSE "mixed9_1")
        b6 == Conv(b5, "branch3x3dbl", "x", 448, 1, 1, 1)
        b7 == Conv(b6, "branch3x3dbl", "branch3x3dbl", 384, 3, 3, 3)
        b8 == Conv(b7, "branch3x3dbl_1", "branch3x3dbl", 384, 1, 3, 1)
        b9 == Conv(b8, "branch3x3dbl_2", "branch3x3dbl", 384, 3, 1, 1)
        b10 == concatenate(b9, "branch3x3dbl",
                           <<"branch3x3dbl_1", "branch3x3dbl_2">>, ChannelAxis,
                           None)
        b11 == AveragePooling3D(b10, "branch_pool", "x", <<3, 3, 3>>, Unit, "same")
        b12 == Conv(b11, "branch_pool", "branch_pool", 192, 1, 1, 1)
    IN  InOrder(<<b1, b2, b3, b4, b5, b6, b7, b8, b9, b10, b11, b12,
                  concatenate(b12, "x",
                      <<"branch1x1", "branch3x3", "branch3x3dbl", "branch_pool">>,
                      ChannelAxis, IF i = 0 THEN "mixed9" ELSE "mixed10")>>)

(***************************************************************************)
(* The top of the network, lines 367-375.                                  *)
(***************************************************************************)
\* variant: the branch for pooling 'max' is missing
TopWithoutMax(g, include_top, pooling, classes) ==
    IF include_top
    THEN Dense(GlobalAveragePooling3D(g, "avg_pool"), classes, "predictions")
    ELSE IF pooling = "avg" THEN GlobalAveragePooling3D(g, None)
    ELSE g

Top(g, include_top, pooling, classes) ==
    IF include_top
    THEN Dense(GlobalAveragePooling3D(g, "avg_pool"), classes, "predictions")
    ELSE IF pooling = "avg" THEN GlobalAveragePooling3D(g, None)
    ELSE IF pooling = "max" THEN GlobalMaxPooling3D(g, None)
    ELSE g

(***************************************************************************)
(* The arguments a caller passes.                                          *)
(***************************************************************************)
Weights == {None, "imagenet", "weights.h5", "missing.h5"}
Poolings == {None, "avg", "max", "sum"}
Classes == {ImagenetClasses, SmallClasses}

Uniform(t, n, e) == SeqStride(t, [i \in 1..n |-> e])

\* a schedule of 5 entries, all PyInt(1) but entry p (1-based), which is e
Deviating(t, p, e) ==
    SeqStride(t, [i \in 1..ScheduleLen |-> IF i = p THEN e ELSE PyInt(1)])

Entries ==
    {PyInt(s) : s \in 1..MaxStride}
    \cup {PyTuple(<<a, b, c>>) : a \in 1..MaxStride, b \in 1..MaxStride,
                                 c \in 1..MaxStride}
    \cup {PyList(<<s, s, s>>) : s \in 1..MaxStride}
    \cup {PyTuple(<<s, s>>) : s \in 1..MaxStride}

StridesMain ==
    {ScalarStride(s) : s \in 1..MaxStride}
    \cup {Uniform("list", n, PyInt(MaxStride)) : n \in 0..MaxSchedLen}
    \cup {Uniform("tuple", ScheduleLen, PyTuple(<<1, MaxStride>>))}

StridesGraph ==
    {ScalarStride(s) : s \in 1..MaxStride}
    \cup {Uniform(t, ScheduleLen, e) : t \in {"list", "tuple"}, e \in Entries}
    \cup {Deviating("list", p, e) : p \in 1..ScheduleLen, e \in Entries}

ShapesMain == {<<1, 1, 1>>, <<MaxExtent, MaxExtent, MaxExtent>>}

ShapesGraph ==
    {<<MaxExtent, b, c>> : b \in {MaxExtent - 1, MaxExtent},
                           c \in {1, MaxExtent - 5, MaxExtent}}

\* input_tensor: absent, a Keras tensor, or a tensor of the backend; a
\* tensor has extents sp of its own, whatever input_shape says
NoTensor == [kind |-> None, sp |-> <<>>]

KerasTensor(sp) == [kind |-> "keras_tensor", sp |-> sp]

BackendTensor(sp) == [kind |-> "backend_tensor", sp |-> sp]

\* backend.is_keras_tensor(input_tensor)
is_keras_tensor(t) == t.kind = "keras_tensor"

\* the tensors passed along with input_shape: a Keras tensor of any
\* extents, a backend tensor of the extents input_shape declares
InputTensors(input_shape) ==
    {NoTensor, BackendTensor(input_shape)}
    \cup {KerasTensor(sp) : sp \in ShapesMain}

ArgsMain ==
    {a \in [include_top : BOOLEAN, weights : Weights,
            input_tensor : UNION {InputTensors(sh) : sh \in ShapesMain},
            input_shape : ShapesMain, pooling : Poolings, classes : Classes,
            stride_size : StridesMain, kwargs : Frameworks] :
        a.input_tensor \in InputTensors(a.input_shape)}

ArgsGraph ==
    [include_top : {FALSE}, weights : {None}, input_tensor : {NoTensor},
     input_shape : ShapesGraph, pooling : {None}, classes : {ImagenetClasses},
     stride_size : StridesGraph, kwargs : Frameworks]

NoArgs ==
    [include_top |-> FALSE, weights |-> None, input_tensor |-> NoTensor,
     input_shape |-> <<>>, pooling |-> None, classes |-> 0,
     stride_size |-> ScalarStride(0), kwargs |-> None]

NoModel == [name |-> None, inputs |-> None, outputs |-> 0, weights |-> None]

NoRet == [kind |-> "pending", exc |-> "", at |-> ""]

Raised(exc, at) == [kind |-> "raise", exc |-> exc, at |-> at]

(***************************************************************************)
(* The state after import: the four globals are None (lines 22-25).        *)
(***************************************************************************)
Init ==
    /\ backend = None /\ layers = None /\ models = None /\ keras_utils = None
    /\ pc = "idle"
    /\ args = NoArgs
    /\ stride_size = <<>>
    /\ graph = EmptyGraph
    /\ model = NoModel
    /\ ret = NoRet
    /\ stdout = <<>>
    /\ loads = <<>>
    /\ writes = 0
    /\ pre = <<>>
    /\ last_kwargs = None

(***************************************************************************)
(* A call of InceptionV3 with arguments a: entry and lines 128-129.        *)
(***************************************************************************)
\* variant: without the global statement the assignment binds locals
CallBindsLocals(a) ==
    /\ pc = "idle"
    /\ args' = a
    /\ writes' = writes
    /\ last_kwargs' = a.kwargs
    /\ pc' = "check_weights"
    /\ UNCHANGED <<globals, stride_size, graph, model, ret, stdout, loads, pre>>

Call(a) ==
    /\ pc = "idle"
    /\ args' = a
    /\ LET m == get_submodules_from_kwargs(a.kwargs)
       IN  /\ backend' = m.backend
           /\ layers' = m.layers
           /\ models' = m.models
           /\ keras_utils' = m.keras_utils
    /\ writes' = writes + 1
    /\ last_kwargs' = a.kwargs
    /\ pc' = "check_weights"
    /\ UNCHANGED <<stride_size, graph, model, ret, stdout, loads, pre>>

\* lines 131-135
CheckWeights ==
    /\ pc = "check_weights"
    /\ IF ~WeightsOk(args.weights)
       THEN ret' = Raised("ValueError", "weights") /\ pc' = "done"
       ELSE ret' = ret /\ pc' = "check_classes"
    /\ UNCHANGED <<globals, args, stride_size, graph, model, stdout, loads,
                   writes, pre, last_kwargs>>

\* lines 137-139
CheckClasses ==
    /\ pc = "check_classes"
    /\ IF ClassesMismatch(args.weights, args.include_top, args.classes)
       THEN ret' = Raised("ValueError", "classes") /\ pc' = "done"
       ELSE ret' = ret /\ pc' = "normalize"
    /\ UNCHANGED <<globals, args, stride_size, graph, model, stdout, loads,
                   writes, pre, last_kwargs>>

\* lines 141-152
NormalizeStride ==
    /\ pc = "normalize"
    /\ stride_size' = ToSchedule(args.stride_size)
    /\ pc' = "check_len"
    /\ UNCHANGED <<globals, args, graph, model, ret, stdout, loads, writes, pre, last_kwargs>>

\* lines 154-156
CheckLen ==
    /\ pc = "check_len"
    /\ IF BadLength(stride_size)
       THEN /\ stdout' = Append(stdout, "Error: stride_size length must be exactly 5")
            /\ ret' = [kind |-> "None", exc |-> "", at |-> ""]
            /\ pc' = "done"
       ELSE /\ stdout' = stdout
            /\ ret' = ret
            /\ pc' = "broadcast"
    /\ UNCHANGED <<globals, args, stride_size, graph, model, loads, writes, pre, last_kwargs>>

\* lines 158-160
Broadcast ==
    /\ pc = "broadcast"
    /\ stride_size' = BroadcastEntries(stride_size)
    /\ pc' = "input"
    /\ UNCHANGED <<globals, args, graph, model, ret, stdout, loads, writes, pre, last_kwargs>>

\* lines 162-168: img_input
ImgInput(a) ==
    Assign(IF a.input_tensor = NoTensor THEN Input(EmptyGraph, a.input_shape)
           ELSE IF ~is_keras_tensor(a.input_tensor)
                THEN Input(EmptyGraph, a.input_shape)
           ELSE ExternalTensor(EmptyGraph, a.input_tensor.sp),
           "img_input")

\* a construction step: the graph after it, or the exception it raised
Construct(g, next) ==
    /\ graph' = g
    /\ IF g.err # ""
       THEN ret' = Raised(g.err, "construction") /\ pc' = "done"
       ELSE ret' = ret /\ pc' = next
    /\ UNCHANGED <<globals, args, stride_size, model, stdout, loads, writes, pre, last_kwargs>>

MakeInput == pc = "input" /\ Construct(ImgInput(args), "stem")

BuildStem == pc = "stem" /\ Construct(Stem(graph, stride_size), "mixed0")

BuildMixed0 == pc = "mixed0" /\ Construct(Mixed35(graph, 32, "mixed0"), "mixed1")

BuildMixed1 == pc = "mixed1" /\ Construct(Mixed35(graph, 64, "mixed1"), "mixed2")

BuildMixed2 == pc = "mixed2" /\ Construct(Mixed35(graph, 64, "mixed2"), "mixed3")

BuildMixed3 == pc = "mixed3" /\ Construct(Mixed3(graph, stride_size), "mixed4")

BuildMixed4 == pc = "mixed4" /\ Construct(Mixed17(graph, 128, "mixed4"), "mixed5")

\* the loop of lines 280-299
BuildMixed5 == pc = "mixed5" /\ Construct(Mixed17(graph, 160, "mixed5"), "mixed6")

BuildMixed6 == pc = "mixed6" /\ Construct(Mixed17(graph, 160, "mixed6"), "mixed7")

BuildMixed7 == pc = "mixed7" /\ Construct(Mixed17(graph, 192, "mixed7"), "mixed8")

BuildMixed8 == pc = "mixed8" /\ Construct(Mixed8(graph, stride_size), "mixed9")

\* the loop of lines 342-366
BuildMixed9 == pc = "mixed9" /\ Construct(Mixed8x8(graph, 0), "mixed10")

BuildMixed10 == pc = "mixed10" /\ Construct(Mixed8x8(graph, 1), "top")

BuildTop ==
    /\ pc = "top"
    /\ Construct(Top(graph, args.include_top, args.pooling, args.classes),
                 "create")

\* lines 377-384
CreateModel ==
    /\ pc = "create"
    /\ model' = [name |-> "inception_v3",
                 inputs |-> IF args.input_tensor # NoTensor THEN "source_inputs"
                            ELSE "img_input",
                 outputs |-> graph.env["x"],
                 weights |-> "initial"]
    /\ pc' = "load"
    /\ UNCHANGED <<globals, args, stride_size, graph, ret, stdout, loads,
                   writes, pre, last_kwargs>>

\* variant: 'imagenet' is not special-cased and is loaded as a path
WarnOnlyNever(weights) == FALSE

\* line 387 and line 389: which branch of the weight loading is taken
WarnOnly(weights) == weights = "imagenet"

ShouldLoad(weights) == weights # None

\* lines 386-390; model.load_weights(weights) either loads the file or raises
LoadWeights ==
    /\ pc = "load"
    /\ IF WarnOnly(args.weights)
       THEN /\ stdout' = Append(stdout, "Warning: no imagenet weights available!!!")
            /\ pc' = "return"
            /\ UNCHANGED <<model, loads, ret>>
       ELSE IF ShouldLoad(args.weights)
       THEN /\ loads' = Append(loads, args.weights)
            /\ \/ /\ model' = [model EXCEPT !.weights = args.weights]
                  /\ pc' = "return"
                  /\ ret' = ret
               \/ /\ ret' = Raised("LoadError", "load_weights")
                  /\ pc' = "done"
                  /\ model' = model
            /\ stdout' = stdout
       ELSE /\ pc' = "return"
            /\ UNCHANGED <<model, loads, ret, stdout>>
    /\ UNCHANGED <<globals, args, stride_size, graph, writes, pre, last_kwargs>>

\* line 392
Return ==
    /\ pc = "return"
    /\ ret' = [kind |-> "model", exc |-> "", at |-> ""]
    /\ pc' = "done"
    /\ UNCHANGED <<globals, args, stride_size, graph, model, stdout, loads,
                   writes, pre, last_kwargs>>

\* preprocess_input(x), lines 395-404, on one pixel value x: mode 'tf'
\* scales to x / 127.5 - 1, kept as the fraction <<2x - 255, 255>>
preprocess_input(x) == <<2 * x - 255, 255>>

PreprocessInput(x) ==
    /\ pc = "idle"
    /\ pre' = preprocess_input(x)
    /\ ret' = [kind |-> "array", exc |-> "", at |-> ""]
    /\ pc' = "done"
    /\ UNCHANGED <<globals, args, stride_size, graph, model, stdout, loads,
                   writes, last_kwargs>>

\* the caller takes the outcome; the locals of the call are gone
Finish ==
    /\ pc = "done"
    /\ pc' = "idle"
    /\ args' = NoArgs
    /\ stride_size' = <<>>
    /\ graph' = EmptyGraph
    /\ model' = NoModel
    /\ ret' = NoRet
    /\ stdout' = <<>>
    /\ loads' = <<>>
    /\ writes' = 0
    /\ pre' = <<>>
    /\ UNCHANGED <<globals, last_kwargs>>

Steps ==
    \/ CheckWeights \/ CheckClasses \/ NormalizeStride \/ CheckLen \/ Broadcast
    \/ MakeInput \/ BuildStem \/ BuildMixed0 \/ BuildMixed1 \/ BuildMixed2
    \/ BuildMixed3 \/ BuildMixed4 \/ BuildMixed5 \/ BuildMixed6 \/ BuildMixed7
    \/ BuildMixed8 \/ BuildMixed9 \/ BuildMixed10 \/ BuildTop \/ CreateModel
    \/ LoadWeights \/ Return \/ Finish
    \/ pc = "idle" /\ \E x \in 0..MaxPixel : PreprocessInput(x)

Next == (pc = "idle" /\ \E a \in ArgsMain : Call(a)) \/ Steps

NextGraph == (pc = "idle" /\ \E a \in ArgsGraph : Call(a)) \/ Steps

Spec == Init /\ [][Next]_vars

SpecGraph == Init /\ [][NextGraph]_vars

(***************************************************************************)
(* The graph a whole call builds from arguments a (lines 141-375): the     *)
(* statements of the call composed, without the caller in between.         *)
(***************************************************************************)
Blocks(g, ss) ==
    LET m0 == Mixed35(g, 32, "mixed0")
        m1 == Mixed35(m0, 64, "mixed1")
        m2 == Mixed35(m1, 64, "mixed2")
        m3 == Mixed3(m2, ss)
        m4 == Mixed17(m3, 128, "mixed4")
        m5 == Mixed17(m4, 160, "mixed5")
        m6 == Mixed17(m5, 160, "mixed6")
        m7 == Mixed17(m6, 192, "mixed7")
        m8 == Mixed8(m7, ss)
        m9 == Mixed8x8(m8, 0)
    IN  InOrder(<<m0, m1, m2, m3, m4, m5, m6, m7, m8, m9, Mixed8x8(m9, 1)>>)

CallGraph(a) ==
    LET sched == ToSchedule(a.stride_size)
        ss == BroadcastEntries(sched)
        stem == Stem(ImgInput(a), ss)
        body == Blocks(stem, ss)
    IN  IF BadLength(sched) THEN EmptyGraph
        ELSE InOrder(<<stem, body,
                       Top(body, a.include_top, a.pooling, a.classes)>>)

\* the shape of a layer's output tensor, without the batch axis
TensorShape(l) ==
    IF l.sp = <<>> THEN <<l.ch>>
    ELSE IF image_data_format(backend) = "channels_first" THEN <<l.ch>> \o l.sp
    ELSE l.sp \o <<l.ch>>

\* model.output_shape[1:]
OutputShape == TensorShape(graph.layers[model.outputs])

(***************************************************************************)
(* Properties.                                                             *)
(***************************************************************************)
\* an InceptionV3 call is running or has just ended
InCall == args # NoArgs

Ended == InCall /\ pc = "done"

\* the conditions of the claims, in the claims' words
BadSelector(a) ==
    a.weights # None /\ a.weights # "imagenet" /\ a.weights \notin ExistingPaths

BadClassCount(a) ==
    a.weights = "imagenet" /\ a.include_top /\ a.classes # 1000

SequenceOfWrongLength(a) ==
    a.stride_size.t \in {"tuple", "list"} /\ Len(a.stride_size.items) # 5

\* C2: a call ends in a ValueError of the argument checks exactly when the
\* weight selector is none of None, 'imagenet', an existing path, or when
\* 'imagenet' comes with include_top and classes other than 1000, whatever
\* the other arguments are.
C2_ValidationRaisesExactly ==
    Ended =>
        /\ (ret.kind = "raise" /\ ret.at \in {"weights", "classes"})
               <=> (BadSelector(args) \/ BadClassCount(args))
        /\ ret.kind = "raise" /\ ret.at \in {"weights", "classes"}
               => ret.exc = "ValueError"
        /\ ret.kind = "raise" /\ ret.at = "weights" <=> BadSelector(args)

\* a call with a malformed stride schedule that ended in the class-count error
C2_Witness ==
    /\ Ended /\ ret = Raised("ValueError", "classes")
    /\ SequenceOfWrongLength(args)

\* C3 (as claimed): a sequence stride schedule of length other than 5 ends
\* in a raised ValueError, like the two argument checks.
C3_BadLengthRaises ==
    Ended /\ ~BadSelector(args) /\ ~BadClassCount(args)
          /\ SequenceOfWrongLength(args)
        => ret.kind = "raise" /\ ret.exc = "ValueError"

\* C4: whenever the weight-selector check, the class-count check or the
\* length check fails, no layer and no model object exists at any point of
\* the call, load_weights is never called and no model is returned; and no
\* layer exists while the checks are still running.
C4_ValidationBeforeConstruction ==
    InCall =>
        /\ BadSelector(args) \/ BadClassCount(args) \/ SequenceOfWrongLength(args)
               => /\ graph = EmptyGraph
                  /\ model = NoModel
                  /\ loads = <<>>
                  /\ ret.kind # "model"
        /\ pc \in {"check_weights", "check_classes", "normalize", "check_len",
                   "broadcast"}
               => graph = EmptyGraph /\ model = NoModel /\ loads = <<>>

\* a call ended by the length check, with nothing built
C4_Witness ==
    /\ Ended /\ SequenceOfWrongLength(args) /\ ret.kind = "None"
    /\ Len(args.stride_size.items) = 4
    /\ graph = EmptyGraph

\* C7: the four globals always hold the selection of the most recent
\* InceptionV3 call (None before the first), whatever its outcome and
\* whatever preprocess_input calls followed, and a call assigns them once,
\* before its first check.
C7_GlobalsFollowLastCall ==
    /\ last_kwargs = None =>
           backend = None /\ layers = None /\ models = None /\ keras_utils = None
    /\ last_kwargs # None =>
           /\ backend = get_submodules_from_kwargs(last_kwargs).backend
           /\ layers = get_submodules_from_kwargs(last_kwargs).layers
           /\ models = get_submodules_from_kwargs(last_kwargs).models
           /\ keras_utils = get_submodules_from_kwargs(last_kwargs).keras_utils
    /\ InCall => writes = 1 /\ last_kwargs = args.kwargs
    /\ ~InCall => writes = 0

\* preprocess_input ended after an earlier call that selected "tfkeras"
C7_Witness ==
    /\ pc = "done" /\ ret.kind = "array"
    /\ last_kwargs = "tfkeras" /\ backend = "tfkeras"

Returned == Ended /\ ret.kind = "model"

\* C1: the output of a returned model is a vector of length classes with
\* include_top, a vector of length 2048 without it under pooling 'avg' or
\* 'max', and otherwise the output of the concatenation mixed10: the three
\* spatial axes and 2048 channels, in the order of the data format.
C1_OutputShape ==
    Returned =>
        IF args.include_top THEN OutputShape = <<args.classes>>
        ELSE IF args.pooling \in {"avg", "max"} THEN OutputShape = <<2048>>
        ELSE /\ graph.layers[model.outputs].name = "mixed10"
             /\ graph.layers[model.outputs].kind = "Concatenate"
             /\ Len(OutputShape) = 4
             /\ OutputShape[ChannelAxis] = 2048
             /\ \A i \in 1..4 : OutputShape[i] > 0

\* a model returned without top under pooling 'max' for a non-default stride
C1_Witness ==
    /\ Returned /\ ~args.include_top /\ args.pooling = "max"
    /\ args.classes = SmallClasses
    /\ OutputShape = <<2048>>

\* C6: a returned model saw load_weights exactly once, with the path, when
\* weights is a path, and never otherwise; 'imagenet' prints the warning
\* and nothing else does; load_weights is only ever called on the created
\* model, before the return; a load that raised ends the call in that
\* exception, with no model returned.
C6_WeightLoading ==
    /\ Returned =>
          /\ args.weights \in ExistingPaths =>
                 /\ loads = <<args.weights>>
                 /\ model.weights = args.weights
                 /\ stdout = <<>>
          /\ args.weights = "imagenet" =>
                 /\ loads = <<>>
                 /\ model.weights = "initial"
                 /\ stdout = <<"Warning: no imagenet weights available!!!">>
          /\ args.weights = None =>
                 loads = <<>> /\ model.weights = "initial" /\ stdout = <<>>
    /\ pc = "return" /\ args.weights \in ExistingPaths => loads = <<args.weights>>
    /\ loads # <<>> =>
          /\ model # NoModel
          /\ loads = <<args.weights>>
          /\ args.weights \in ExistingPaths
    /\ Ended /\ loads # <<>> /\ model.weights # args.weights =>
          ret = Raised("LoadError", "load_weights")

\* a call whose load_weights raised
C6_Witness ==
    /\ Ended /\ loads = <<"weights.h5">> /\ model.weights = "initial"
    /\ ret.kind = "raise"

(***************************************************************************)
(* Properties of the graph, checked under SpecGraph.                       *)
(***************************************************************************)
\* the forms of a stride schedule the claim calls equivalent to the scalar s
ScalarForms(s) ==
    {ScalarStride(s)}
    \cup {Uniform(t, 5, e) : t \in {"list", "tuple"},
                             e \in {PyInt(s), PyTuple(<<s, s, s>>)}}

\* C5: the graph (or the exception) a call ends with for a scalar stride s,
\* for the schedule of five s, or for the schedule of five (s, s, s), is the
\* graph a call with any other of these forms builds, all other arguments
\* being equal.
C5_ScalarIsSchedule ==
    Ended =>
        \A s \in 1..MaxStride :
            args.stride_size \in ScalarForms(s) =>
                \A f \in ScalarForms(s) :
                    CallGraph([args EXCEPT !.stride_size = f]) = graph

\* a model built from the scalar 2, with a layer that halves the volume
C5_Witness ==
    /\ Returned /\ args.stride_size = ScalarStride(2)
    /\ \E i \in DOMAIN graph.layers :
           /\ graph.layers[i].strides = <<2, 2, 2>>
           /\ graph.layers[i].name = None
    /\ Len(graph.layers) > 300

Strided(l) ==
    /\ l.kind \in {"Conv3D", "MaxPooling3D", "AveragePooling3D"}
    /\ l.strides # <<1, 1, 1>>

MixedNames ==
    {"mixed0", "mixed1", "mixed2", "mixed3", "mixed4", "mixed5", "mixed6",
     "mixed7", "mixed8", "mixed9", "mixed10"}

\* the number of mixed blocks completed before layer i was created
BlocksBefore(g, i) ==
    Cardinality({j \in 1..(i - 1) : g.layers[j].name \in MixedNames})

\* kind, position and strides of every layer with a non-unit stride, in
\* creation order
StridedLayers(g) ==
    LET Test(i) == Strided(g.layers[i])
        idx == SelectSeq([i \in 1..Len(g.layers) |-> i], Test)
    IN  [k \in 1..Len(idx) |->
            <<g.layers[idx[k]].kind, BlocksBefore(g, idx[k]),
              g.layers[idx[k]].strides>>]

\* the downsampling layers the claim names: three before mixed0 is
\* complete (a convolution, then two max-poolings) with entries 0, 1, 2;
\* one per branch of mixed3 with entry 3 and of mixed8 with entry 4
NamedStages(ss) ==
    << <<"Conv3D", 0, ss[1].v>>, <<"MaxPooling3D", 0, ss[2].v>>,
       <<"MaxPooling3D", 0, ss[3].v>>,
       <<"Conv3D", 3, ss[4].v>>, <<"Conv3D", 3, ss[4].v>>,
       <<"MaxPooling3D", 3, ss[4].v>>,
       <<"Conv3D", 8, ss[5].v>>, <<"Conv3D", 8, ss[5].v>>,
       <<"MaxPooling3D", 8, ss[5].v>> >>

NonUnit(stage) == stage[3] # <<1, 1, 1>>

\* C8: in a built graph the layers with a non-unit stride are exactly the
\* named downsampling layers whose schedule entry is not (1, 1, 1), in
\* this order and with these strides; every other convolution and pooling
\* has unit stride.
C8_StrideEntriesInOrder ==
    Returned => StridedLayers(graph) = SelectSeq(NamedStages(stride_size), NonUnit)

\* a built graph whose five entries are consumed: entry 3 is the only
\* non-unit entry and mixed3 alone downsamples, along two axes
C8_Witness ==
    /\ Returned
    /\ args.stride_size = Deviating("list", 4, PyTuple(<<2, 1, 2>>))
    /\ Len(StridedLayers(graph)) = 3

\* C9 (as claimed): once the call has created a layer, stride_size is a
\* list of 5 entries, each a sequence of 3 axes.
C9_FiveThreeAxisEntries ==
    InCall /\ graph # EmptyGraph =>
        /\ Len(stride_size) = 5
        /\ \A i \in 1..5 : IsSequence(stride_size[i]) /\ Len(stride_size[i].v) = 3

ThreeAxis(ss) == \A i \in DOMAIN ss : Len(ss[i].v) = 3

\* the tensor a block reads: from tensor t back along first inputs to the
\* output of the previous block (or of the stem's last pooling)
RECURSIVE BlockInput(_, _)
BlockInput(g, t) ==
    IF \/ g.layers[t].name \in MixedNames
       \/ g.layers[t].kind = "MaxPooling3D" /\ g.layers[t].padding = "valid"
    THEN t
    ELSE BlockInput(g, g.layers[t].ins[1])

CeilDiv(sp, strides) == [i \in 1..3 |-> (sp[i] + strides[i] - 1) \div strides[i]]

\* C10: under a schedule of five 3-axis strides no concatenation ever
\* fails on mismatched shapes, and the inputs of every concatenation
\* created have the extents of the block's input, divided (rounding up)
\* by entry 3 in mixed3 and by entry 4 in mixed8.
C10_BranchesAgree ==
    pc \notin {"idle", "check_weights", "check_classes", "normalize",
               "check_len", "broadcast"} /\ InCall /\ ThreeAxis(stride_size) =>
        /\ graph.err # ConcatError
        /\ \A i \in DOMAIN graph.layers :
               graph.layers[i].kind = "Concatenate" =>
                   LET l == graph.layers[i]
                       x == graph.layers[BlockInput(graph, l.ins[1])].sp
                       want == IF l.name = "mixed3"
                                   THEN CeilDiv(x, stride_size[4].v)
                               ELSE IF l.name = "mixed8"
                                   THEN CeilDiv(x, stride_size[5].v)
                               ELSE x
                   IN  \A k \in DOMAIN l.ins : graph.layers[l.ins[k]].sp = want

\* a built graph over a non-cubic volume whose mixed3 shrinks two of its
\* three axes
C10_Witness ==
    /\ Returned
    /\ args.input_shape = <<MaxExtent, MaxExtent - 1, MaxExtent - 5>>
    /\ args.stride_size = Deviating("list", 4, PyTuple(<<2, 1, 2>>))
    /\ \E i \in DOMAIN graph.layers :
           /\ graph.layers[i].name = "mixed3"
           /\ graph.layers[i].sp # graph.layers[BlockInput(graph, graph.layers[i].ins[1])].sp

====
